---- MODULE Spec2Model ----
(***************************************************************************)
(* NovaStoryteller: the story generation and narration pipeline            *)
(* (api/views.py StoryViewSet, api/nova_service.py, api/utils.py) and the  *)
(* voice session protocol (api/consumers.py VoiceStoryConsumer).           *)
(*                                                                         *)
(* One story is modelled.  A request handler runs as a sequence of steps,  *)
(* one step per call that reads or changes the store, the file system or   *)
(* a collaborator; `req.pc` is the handler's position.  The collaborators  *)
(* (text generation, image analysis, speech synthesis, transcoding, the    *)
(* file system) are black boxes: every call either returns or raises.      *)
(***************************************************************************)
EXTENDS Integers, Sequences, FiniteSets, TLC

VARIABLES
    story,      \* the Story row: story_text, system_prompt_used, audio_file, image, image_description
    files,      \* audio files present under MEDIA_ROOT (a path is the second it was named after)
    revisions,  \* StoryRevision rows of the story, oldest first
    scenes,     \* StoryScene rows of the story
    now,        \* datetime.now(), in whole seconds
    sess,       \* the voice session (VoiceStoryConsumer instance)
    req,        \* the HTTP request in flight (or the last one answered): its locals and position
    loop,       \* the asyncio event loop and the consumers' tasks on it
    playback,   \* the StorySession row of a playback
    parser,     \* a call of NovaService.parse_story_parts: its argument and its result
    gens        \* two requests that generate audio for the story at the same time

vars == <<story, files, revisions, scenes, now, sess, req, loop, playback, parser, gens>>

----------------------------------------------------------------------------
(* Bounds of the model *)

MaxClock == 3       \* seconds the clock can show
MonthLen == 2       \* seconds in a "month" (assets are partitioned by year/month)
MaxRevs == 1        \* StoryRevision rows kept in view: the newest MaxRevs

----------------------------------------------------------------------------
(* Identities *)

Owner == "alice"
Admin == "root"         \* is_superuser
Other == "bob"
Anonymous == "anon"     \* AnonymousUser of AuthMiddlewareStack

HttpUsers == {Owner, Admin, Other}

is_superuser(u) == u = Admin

is_authenticated(u) == u # Anonymous

----------------------------------------------------------------------------
(* Texts.  A story text is named; TextLines gives its lines.               *)

NoText == ""
Blank == " "                     \* whitespace only
ErrImport == "Nova AI service not configured. Please configure AWS credentials."
ErrGenerate == "Error generating story: ... Please try again or contact support."

GeneratedTexts == {"G1", "G2"}   \* what nova.generate_story can return
EditTexts == {NoText, Blank, "A"}       \* what a client can put in story_text

\* Python truthiness of a str
\* a test that every text passes
AnyText(t) == TRUE

Truthy(t) == t # NoText

\* `not t or len(t.strip()) == 0`
IsBlank(t) == t \in {NoText, Blank}

----------------------------------------------------------------------------
(* Asset paths: year/month/<story-id>/audio_<YYYYmmdd_HHMMSS>.mp3 *)

\* get_image_upload_path for category 'stories', filename 'audio.mp3':
\* the name carries the time with a resolution of one second.
get_image_upload_path(t) == t

\* the year/month/<story-id> directory of a path
Dir(p) == (p - 1) \div MonthLen

\* 'audio' in path.lower() or path.endswith(('.mp3', ...)): true of every path
\* get_image_upload_path produces for an audio file
is_audio_file(p) == p # 0

----------------------------------------------------------------------------
(* Rows *)

NewStory(text, image) ==
    [exists |-> TRUE, story_text |-> text, system_prompt_used |-> NoText,
     audio_file |-> 0, image |-> image, image_description |-> NoText]

NoStory ==
    [exists |-> FALSE, story_text |-> NoText, system_prompt_used |-> NoText,
     audio_file |-> 0, image |-> FALSE, image_description |-> NoText]

Revision(text, u) == [story_text |-> text, created_by |-> u]

\* No handler reads, changes or deletes a StoryRevision row once created
\* (the table is append-only), so the model keeps the newest MaxRevs rows.
Newest(revs) ==
    IF Len(revs) > MaxRevs THEN SubSeq(revs, Len(revs) - MaxRevs + 1, Len(revs)) ELSE revs

\* StoryRevision.objects.create(story=story, story_text=text, created_by=u)
CreateRevision(revs, text, u) == Newest(Append(revs, Revision(text, u)))

\* get_object() over get_queryset() (views.py 1613-1622): the story is visible
\* to its owner and to a superuser; anyone else gets 404
get_queryset(st, u) == st.exists /\ (is_superuser(u) \/ u = Owner)

\* every authenticated user
AnyUser == HttpUsers

Actors == {u \in HttpUsers : is_superuser(u) \/ u = Owner}

----------------------------------------------------------------------------
(* The request in flight *)

\* what a request found: the text and the audio reference before it ran,
\* and, for generate_scenes, how many scenes the story had
Pre(st) == [story_text |-> st.story_text, audio_file |-> st.audio_file, scenes |-> 0]

NoRequest ==
    [op |-> "none", user |-> Anonymous, pc |-> "done", status |-> 0, ret |-> FALSE,
     pre |-> Pre(NoStory),
     parts |-> <<>>,        \* generate_scenes: the parsed parts,
     i |-> 0,               \*   the index of the part in hand,
     generated_scenes |-> <<>>,     \* and the indexes of the parts appended
     gen |-> "none",        \* nova.generate_story: "none" (not called), "ok", "fail"
     audio |-> "none",      \* the audio stage: "none" (not reached), "ok", "failed"
     revised |-> FALSE,     \* a StoryRevision was created by this request
     generate_only_audio |-> FALSE,
     image_description |-> NoText,  \* the local of _generate_story_content
     story_text |-> NoText,         \* the local story_text / the unsaved instance's text
     has_text |-> FALSE,            \* 'story_text' in serializer.validated_data
     has_image |-> FALSE,           \* 'image' in serializer.validated_data
     old_audio_path |-> 0,
     audio_path |-> 0]

NewRequest(op, u, pc) ==
    [NoRequest EXCEPT !.op = op, !.user = u, !.pc = pc, !.pre = Pre(story)]

\* the handler returns: its locals are gone
Finish(r, status, ret) ==
    [NoRequest EXCEPT !.op = r.op, !.user = r.user, !.pre = r.pre, !.gen = r.gen,
                      !.audio = r.audio, !.revised = r.revised,
                      !.status = status, !.ret = ret]

\* the status each caller answers with once _generate_story_content returned:
\* none of them looks at its return value
StatusAfterGenerate(op) == IF op = "create" THEN 201 ELSE 200

Idle == req.pc = "done"

\* a voice session: one VoiceStoryConsumer and its socket
NoSession ==
    [state |-> "none",      \* "none", "active" (accepted), "closed"
     story_id |-> "s1", user |-> Anonymous,
     code |-> 0,            \* the close code
     closed_by |-> "none",  \* "server" or "client"
     pc |-> "closed",       \* the consumer's position
     inbox |-> <<>>,        \* the messages that have arrived and wait for receive
     msg |-> "none",        \* the kind of the message in hand, or last handled
     data |-> "absent",     \* its 'audio' or 'text': "absent", "malformed", "valid"
     speech |-> "none",     \* the synthesis of the reply: "none", "ok", "failed"
     frames |-> <<>>,       \* the frames sent for it: their kinds
     payloads |-> <<>>,     \*   and, frame by frame, the part each carries
     parts |-> <<>>, i |-> 0]       \* the narration loop

\* the event loop the voice consumers share: no consumer is running
Consumers == {1, 2}
NoTask == [pc |-> "idle", msg |-> "none", calls |-> <<>>, call |-> "none", on |-> "none",
           inbox |-> <<>>, overlap |-> FALSE]
NoLoop == [running |-> 0, task |-> [k \in Consumers |-> NoTask]]

\* the StorySession row: there is none
\* a nullable column that holds NULL
Null == 0 - 100

\* the StorySession table before any session is created
NoStorySession == [exists |-> FALSE, user |-> Anonymous, started_at |-> Null,
                   ended_at |-> Null, duration_seconds |-> Null, completed |-> FALSE]

\* no session and no response yet
NoPlayback == [session |-> NoStorySession, op |-> "none", status |-> 0]

\* parse_story_parts not called yet
NoParser == [pc |-> "idle", lines |-> <<>>, parts |-> <<>>]

\* the two requests, neither started
Generators == {1, 2}

NoGen == [pc |-> "idle", path |-> 0, old |-> 0]

NoGens == [g \in Generators |-> NoGen]

Init ==
    /\ story = NoStory
    /\ files = {}
    /\ revisions = <<>>
    /\ scenes = <<>>
    /\ now = 1
    /\ sess = NoSession
    /\ req = NoRequest
    /\ loop = NoLoop
    /\ playback = NoPlayback
    /\ parser = NoParser
    /\ gens = NoGens

\* the clock moves on
Tick ==
    /\ now < MaxClock
    /\ now' = now + 1
    /\ UNCHANGED <<story, files, revisions, scenes, sess, req, loop, playback, parser, gens>>

\* the operations on one story: every one of them starts with get_object()
StoryOperations ==
    {"retrieve", "update_text", "update_image", "delete", "generate_audio", "revisions",
     "regenerate", "generate_scenes", "upload_scene_image", "initialize_scenes",
     "add_scene", "delete_scene"}

\* a request on the story by somebody get_queryset hides it from: 404
NotFound ==
    /\ Idle
    /\ story.exists
    /\ \E u \in HttpUsers, op \in StoryOperations :
        /\ ~get_queryset(story, u)
        /\ req' = Finish(NewRequest(op, u, "done"), 404, FALSE)
    /\ UNCHANGED <<story, files, revisions, scenes, now, loop, playback, sess, parser, gens>>

----------------------------------------------------------------------------
(* StoryViewSet._generate_story_content (views.py 1639-1837), step by step *)

\* lines 1826-1837: both except branches overwrite story_text with a message,
\* save the row and return False
ErrorHandler(msg) ==
    /\ story' = [story EXCEPT !.story_text = msg]
    /\ req' = Finish(req, StatusAfterGenerate(req.op), FALSE)

\* lines 1810-1824: an exception of the audio stage is logged and dropped;
\* the function returns True
AudioFailed ==
    req' = Finish([req EXCEPT !.audio = "failed"], StatusAfterGenerate(req.op), TRUE)

\* lines 1642-1643: from .nova_service import NovaService; nova = NovaService()
GenInit ==
    /\ req.pc = "g_init"
    /\ \/ /\ req' = [req EXCEPT !.pc = "g_analyze"]
          /\ UNCHANGED story
       \/ ErrorHandler(ErrGenerate)     \* ValueError: AWS credentials not found
       \/ ErrorHandler(ErrImport)       \* ImportError
    /\ UNCHANGED <<files, revisions, scenes, now, loop, playback, sess, parser, gens>>

\* lines 1646-1655
GenAnalyze ==
    /\ req.pc = "g_analyze"
    /\ IF story.image /\ ~Truthy(req.image_description)
       THEN \/ /\ story' = [story EXCEPT !.image_description = "D"]
               /\ req' = [req EXCEPT !.pc = "g_text", !.image_description = "D"]
            \/ /\ req' = [req EXCEPT !.pc = "g_text"]   \* swallowed
               /\ UNCHANGED story
       ELSE /\ req' = [req EXCEPT !.pc = "g_text"]
            /\ UNCHANGED story
    /\ UNCHANGED <<files, revisions, scenes, now, loop, playback, sess, parser, gens>>

\* GenText with a save that also clears the audio reference
GenTextClearsAudio ==
    /\ req.pc = "g_text"
    /\ IF req.generate_only_audio
       THEN /\ req' = [req EXCEPT !.pc = "g_synth", !.story_text = story.story_text]
            /\ UNCHANGED story
       ELSE \/ \E t \in GeneratedTexts :
                 /\ story' = [story EXCEPT !.story_text = t, !.system_prompt_used = "SP",
                                           !.audio_file = 0]
                 /\ req' = [req EXCEPT !.pc = "g_synth", !.story_text = t, !.gen = "ok"]
            \/ /\ story' = [story EXCEPT !.story_text = ErrGenerate]
               /\ req' = Finish([req EXCEPT !.gen = "fail"], StatusAfterGenerate(req.op), FALSE)
    /\ UNCHANGED <<files, revisions, scenes, now, sess, loop, playback, parser, gens>>

\* GenText with the save of line 1676 left out: the text stays on the instance
GenTextUnsaved ==
    /\ req.pc = "g_text"
    /\ IF req.generate_only_audio
       THEN /\ req' = [req EXCEPT !.pc = "g_synth", !.story_text = story.story_text]
            /\ UNCHANGED story
       ELSE \/ \E t \in GeneratedTexts :
                 /\ req' = [req EXCEPT !.pc = "g_synth", !.story_text = t, !.gen = "ok"]
                 /\ UNCHANGED story
            \/ /\ story' = [story EXCEPT !.story_text = ErrGenerate]
               /\ req' = Finish([req EXCEPT !.gen = "fail"], StatusAfterGenerate(req.op), FALSE)
    /\ UNCHANGED <<files, revisions, scenes, now, loop, playback, sess, parser, gens>>

\* lines 1657-1679
GenText ==
    /\ req.pc = "g_text"
    /\ IF req.generate_only_audio
       THEN /\ req' = [req EXCEPT !.pc = "g_synth", !.story_text = story.story_text]
            /\ UNCHANGED story
       ELSE \/ \E t \in GeneratedTexts :
                 /\ story' = [story EXCEPT !.story_text = t, !.system_prompt_used = "SP"]
                 /\ req' = [req EXCEPT !.pc = "g_synth", !.story_text = t, !.gen = "ok"]
            \/ /\ story' = [story EXCEPT !.story_text = ErrGenerate]
               /\ req' = Finish([req EXCEPT !.gen = "fail"], StatusAfterGenerate(req.op), FALSE)
    /\ UNCHANGED <<files, revisions, scenes, now, loop, playback, sess, parser, gens>>

\* lines 1688-1705: nova.synthesize_speech raises when Polly fails or returns nothing
GenSynth ==
    /\ req.pc = "g_synth"
    /\ IF IsBlank(req.story_text)
       THEN AudioFailed
       ELSE \/ req' = [req EXCEPT !.pc = "g_mp3"]
            \/ AudioFailed
    /\ UNCHANGED <<story, files, revisions, scenes, now, loop, playback, sess, parser, gens>>

\* lines 1710-1718
GenMp3 ==
    /\ req.pc = "g_mp3"
    /\ \/ req' = [req EXCEPT !.pc = "g_write"]
       \/ AudioFailed
    /\ UNCHANGED <<story, files, revisions, scenes, now, loop, playback, sess, parser, gens>>

\* lines 1723-1748: refresh_from_db, remember the old path, write the new file
GenWrite ==
    /\ req.pc = "g_write"
    /\ \/ /\ files' = files \cup {get_image_upload_path(now)}
          /\ req' = [req EXCEPT !.pc = "g_commit", !.old_audio_path = story.audio_file,
                                !.audio_path = get_image_upload_path(now)]
       \/ /\ AudioFailed
          /\ UNCHANGED files
    /\ UNCHANGED <<story, revisions, scenes, now, loop, playback, sess, parser, gens>>

\* lines 1750-1752: story.audio_file.name = audio_path; story.save(update_fields=['audio_file'])
GenCommitAudio ==
    /\ req.pc = "g_commit"
    /\ story' = [story EXCEPT !.audio_file = req.audio_path]
    /\ req' = [req EXCEPT !.pc = "g_delete_old", !.audio = "ok"]
    /\ UNCHANGED <<files, revisions, scenes, now, loop, playback, sess, parser, gens>>

\* lines 1761-1772: the specific old file; an exception skips the sweep too
GenDeleteOld ==
    /\ req.pc = "g_delete_old"
    /\ IF /\ req.old_audio_path # 0
          /\ req.old_audio_path # req.audio_path
          /\ is_audio_file(req.old_audio_path)
          /\ req.old_audio_path \in files
       THEN \/ /\ files' = files \ {req.old_audio_path}
               /\ req' = [req EXCEPT !.pc = "g_sweep"]
            \/ /\ req' = Finish(req, StatusAfterGenerate(req.op), TRUE)
               /\ UNCHANGED files
       ELSE /\ req' = [req EXCEPT !.pc = "g_sweep"]
            /\ UNCHANGED files
    /\ UNCHANGED <<story, revisions, scenes, now, loop, playback, sess, parser, gens>>

\* lines 1774-1797: every other audio_*.mp3 of the story directory goes
GenSweep ==
    /\ req.pc = "g_sweep"
    /\ files' = {f \in files : Dir(f) # Dir(req.audio_path) \/ f = req.audio_path}
    /\ req' = Finish(req, StatusAfterGenerate(req.op), TRUE)
    /\ UNCHANGED <<story, revisions, scenes, now, loop, playback, sess, parser, gens>>

----------------------------------------------------------------------------
(* perform_create, perform_update, generate_audio (views.py 1839-1928)     *)

\* POST /stories/ : serializer.save(user=request.user), then generate
Create ==
    /\ Idle
    /\ ~story.exists
    /\ \E text \in {NoText, "A"}, image \in BOOLEAN :
        /\ story' = NewStory(text, image)
        /\ req' = [NewRequest("create", Owner, "g_init") EXCEPT !.pre = Pre(NewStory(text, image))]
    /\ UNCHANGED <<files, revisions, scenes, now, loop, playback, sess, parser, gens>>

\* PUT/PATCH /stories/<id>/ with a story_text, lines 1850-1854: the old text is
\* read, then serializer.save() commits the new one
UpdateText ==
    /\ Idle
    /\ story.exists
    /\ \E u \in Actors, text \in EditTexts, image \in BOOLEAN :
        /\ story' = [story EXCEPT !.story_text = text, !.image = @ \/ image]
        /\ req' = [NewRequest(IF image THEN "update_image" ELSE "update_text", u, "u_revision")
                      EXCEPT !.has_text = TRUE, !.has_image = image, !.story_text = text]
    /\ UNCHANGED <<files, revisions, scenes, now, loop, playback, sess, parser, gens>>

\* PUT/PATCH /stories/<id>/ with an image and no story_text
UpdateImage ==
    /\ Idle
    /\ story.exists
    /\ \E u \in Actors :
        /\ story' = [story EXCEPT !.image = TRUE]
        /\ req' = [NewRequest("update_image", u, "u_revision") EXCEPT !.has_image = TRUE]
    /\ UNCHANGED <<files, revisions, scenes, now, loop, playback, sess, parser, gens>>

\* lines 1856-1880: the revision of the old text, then the regeneration when
\* the image was updated (image_description=None)
UpdateRevision ==
    /\ req.pc = "u_revision"
    /\ LET old_story_text == req.pre.story_text
           revise == req.has_text /\ old_story_text # req.story_text /\ Truthy(old_story_text)
       IN  /\ revisions' = IF revise THEN CreateRevision(revisions, old_story_text, req.user)
                           ELSE revisions
           /\ req' = IF req.has_image
                     THEN [req EXCEPT !.pc = "g_init", !.revised = revise,
                                      !.story_text = NoText, !.image_description = NoText,
                                      !.generate_only_audio = FALSE]
                     ELSE Finish([req EXCEPT !.revised = revise], 200, TRUE)
    /\ UNCHANGED <<story, files, scenes, now, loop, playback, sess, parser, gens>>

\* POST /stories/<id>/generate_audio/, lines 1894-1910 (the request's voice_id
\* only selects the voice)
GenerateAudio ==
    /\ Idle
    /\ story.exists
    /\ \E u \in Actors :
        req' = IF IsBlank(story.story_text)
               THEN Finish(NewRequest("generate_audio", u, "done"), 400, FALSE)
               ELSE [NewRequest("generate_audio", u, "g_init")
                        EXCEPT !.generate_only_audio = TRUE,
                               !.image_description = story.image_description]
    /\ UNCHANGED <<story, files, revisions, scenes, now, loop, playback, sess, parser, gens>>

----------------------------------------------------------------------------
(* regenerate (views.py 1986-2142), step by step *)

\* lines 2003-2011: the old text is saved as a revision before anything else
Regenerate ==
    /\ Idle
    /\ story.exists
    /\ \E u \in Actors :
        LET old_story_text == story.story_text
            revise == Truthy(old_story_text) /\ ~IsBlank(old_story_text)
        IN  /\ revisions' = IF revise THEN CreateRevision(revisions, old_story_text, u)
                            ELSE revisions
            /\ req' = [NewRequest("regenerate", u, "r_init") EXCEPT !.revised = revise]
    /\ UNCHANGED <<story, files, scenes, now, loop, playback, sess, parser, gens>>

\* lines 2014-2015 and the except branches 2133-2142: nothing is saved
RegenInit ==
    /\ req.pc = "r_init"
    /\ \/ req' = [req EXCEPT !.pc = "r_analyze"]
       \/ req' = Finish(req, 500, FALSE)    \* ValueError
       \/ req' = Finish(req, 503, FALSE)    \* ImportError
    /\ UNCHANGED <<story, files, revisions, scenes, now, loop, playback, sess, parser, gens>>

\* lines 2017-2047: a cached description is reused, else the image is analysed
RegenAnalyze ==
    /\ req.pc = "r_analyze"
    /\ IF story.image /\ ~Truthy(story.image_description)
       THEN \/ /\ story' = [story EXCEPT !.image_description = "D"]
               /\ req' = [req EXCEPT !.pc = "r_text", !.image_description = "D"]
            \/ /\ req' = [req EXCEPT !.pc = "r_text"]
               /\ UNCHANGED story
       ELSE /\ req' = [req EXCEPT !.pc = "r_text",
                                  !.image_description = IF story.image THEN story.image_description
                                                        ELSE NoText]
            /\ UNCHANGED story
    /\ UNCHANGED <<files, revisions, scenes, now, loop, playback, sess, parser, gens>>

\* lines 2064-2074: the new text is set on the instance, not saved
RegenText ==
    /\ req.pc = "r_text"
    /\ \/ \E t \in GeneratedTexts :
            req' = [req EXCEPT !.pc = "r_synth", !.story_text = t, !.gen = "ok"]
       \/ req' = Finish([req EXCEPT !.gen = "fail"], 500, FALSE)
    /\ UNCHANGED <<story, files, revisions, scenes, now, loop, playback, sess, parser, gens>>

\* lines 2121-2126: an exception of the audio stage is logged; story.save()
\* then writes the instance: the new text, and the audio reference it holds
RegenSave(audio_file, audio) ==
    /\ story' = [story EXCEPT !.story_text = req.story_text, !.system_prompt_used = "SP",
                              !.audio_file = audio_file]
    /\ req' = Finish([req EXCEPT !.audio = audio], 200, TRUE)

\* line 2082
RegenSynth ==
    /\ req.pc = "r_synth"
    /\ \/ /\ req' = [req EXCEPT !.pc = "r_mp3"]
          /\ UNCHANGED story
       \/ RegenSave(story.audio_file, "failed")
    /\ UNCHANGED <<files, revisions, scenes, now, loop, playback, sess, parser, gens>>

\* lines 2085-2086
RegenMp3 ==
    /\ req.pc = "r_mp3"
    /\ \/ /\ req' = [req EXCEPT !.pc = "r_write"]
          /\ UNCHANGED story
       \/ RegenSave(story.audio_file, "failed")
    /\ UNCHANGED <<files, revisions, scenes, now, loop, playback, sess, parser, gens>>

\* lines 2088-2106: the old path is remembered, the new file written, and the
\* new path set on the instance
RegenWrite ==
    /\ req.pc = "r_write"
    /\ \/ /\ files' = files \cup {get_image_upload_path(now)}
          /\ req' = [req EXCEPT !.pc = "r_delete_old", !.old_audio_path = story.audio_file,
                                !.audio_path = get_image_upload_path(now)]
          /\ UNCHANGED story
       \/ /\ RegenSave(story.audio_file, "failed")
          /\ UNCHANGED files
    /\ UNCHANGED <<revisions, scenes, now, loop, playback, sess, parser, gens>>

\* lines 2108-2119: old_audio_path is absolute and audio_path relative, so
\* `old_audio_path != audio_path` is always true; a failed os.remove is logged
RegenDeleteOld ==
    /\ req.pc = "r_delete_old"
    /\ IF /\ req.old_audio_path # 0
          /\ req.old_audio_path \in files
          /\ is_audio_file(req.old_audio_path)
       THEN \/ files' = files \ {req.old_audio_path}
            \/ UNCHANGED files
       ELSE UNCHANGED files
    /\ req' = [req EXCEPT !.pc = "r_save"]
    /\ UNCHANGED <<story, revisions, scenes, now, loop, playback, sess, parser, gens>>

\* line 2126 after a completed audio stage
RegenCommit ==
    /\ req.pc = "r_save"
    /\ RegenSave(req.audio_path, "ok")
    /\ UNCHANGED <<files, revisions, scenes, now, loop, playback, sess, parser, gens>>

----------------------------------------------------------------------------

NextGen ==
    \/ Tick \/ NotFound
    \/ Create \/ UpdateText \/ UpdateImage \/ UpdateRevision \/ GenerateAudio
    \/ GenInit \/ GenAnalyze \/ GenText \/ GenSynth \/ GenMp3 \/ GenWrite
    \/ GenCommitAudio \/ GenDeleteOld \/ GenSweep
    \/ Regenerate \/ RegenInit \/ RegenAnalyze \/ RegenText \/ RegenSynth \/ RegenMp3
    \/ RegenWrite \/ RegenDeleteOld \/ RegenCommit

SpecGen == Init /\ [][NextGen]_vars

----------------------------------------------------------------------------
(* NovaService.parse_story_parts (nova_service.py 424-531)

   A text is a sequence of lines, a line one of
     H(n)     "## Part n"      a markdown header, unindented
     P(n, s)  "Part n: s"      an inline marker, s on the same line
     N(n, s)  "n. s"           a numbered section
     T(s)     s                any other line that is not blank
     B                         a blank line
   where s holds no marker of its own. *)

H(n) == [k |-> "hdr", n |-> n, s |-> ""]
P(n, s) == [k |-> "inl", n |-> n, s |-> s]
N(n, s) == [k |-> "num", n |-> n, s |-> s]
T(s) == [k |-> "txt", n |-> 0, s |-> s]
B == [k |-> "blank", n |-> 0, s |-> ""]

TextLines(t) ==
    CASE t = NoText -> <<>>
      [] t = Blank -> <<B>>
      [] t = "G1" -> <<T("once"), H(1), T("a"), B, H(3), T("c"), H(2), T("b"), B>>
      [] t = "G2" -> <<H(1), T("a"), H(2), B, H(1), T("b")>>
      [] t = "Inline" -> <<P(2, "b"), T("more"), P(1, "a")>>
      [] t = "Numbered" -> <<N(1, "long"), N(2, "short")>>
      [] OTHER -> <<T(t)>>

\* len() of a line's text
TextLen(s) ==
    CASE s = "long" -> 51
      [] s = "fifty" -> 50
      [] s = "fortynine" -> 49
      [] OTHER -> 5

RECURSIVE LStrip(_)
LStrip(lines) ==
    IF lines = <<>> THEN <<>>
    ELSE IF Head(lines).k = "blank" THEN LStrip(Tail(lines)) ELSE lines

RECURSIVE RStrip(_)
RStrip(lines) ==
    IF lines = <<>> THEN <<>>
    ELSE IF lines[Len(lines)].k = "blank" THEN RStrip(SubSeq(lines, 1, Len(lines) - 1))
    ELSE lines

\* the joined lines as they are
Untrimmed(lines) == lines

\* str.strip() of the joined lines
Strip(lines) == RStrip(LStrip(lines))

Part(number, text) == [number |-> number, text |-> text]

\* lines 462-465 and 480-487: a part is kept when its stripped text is not empty
SavePart(parts, current_part, current_text) ==
    IF current_part # -1 /\ Strip(current_text) # <<>>
    THEN Append(parts, Part(current_part, Strip(current_text)))
    ELSE parts

\* lines 454-487: the loop over the lines; current_part -1 is None
RECURSIVE MarkdownParts(_, _, _, _)
MarkdownParts(lines, current_part, current_text, parts) ==
    IF lines = <<>> THEN SavePart(parts, current_part, current_text)
    ELSE LET line == Head(lines)
         IN  IF line.k = "hdr"
             THEN MarkdownParts(Tail(lines), line.n, <<>>,
                                SavePart(parts, current_part, current_text))
             ELSE MarkdownParts(Tail(lines), current_part,
                                IF current_part # -1 THEN Append(current_text, line)
                                ELSE current_text,
                                parts)

\* lines 497-506: the lazy group of part_patterns[0] ends at the end of the
\* marker's line
InlineParts(lines) ==
    LET m == SelectSeq(lines, LAMBDA l : l.k = "inl")
    IN  [j \in 1..Len(m) |-> Part(m[j].n, <<T(m[j].s)>>)]

\* lines 509-519: numbered sections longer than 50 characters
NumberedParts(lines) ==
    LET m == SelectSeq(lines, LAMBDA l : l.k = "num" /\ TextLen(l.s) > 50)
    IN  [j \in 1..Len(m) |-> Part(m[j].n, <<T(m[j].s)>>)]

\* an insert that puts the part in front, whatever its number
PutFirst(sorted, part) == <<part>> \o sorted

RECURSIVE InsertPart(_, _)
InsertPart(sorted, part) ==
    IF sorted = <<>> THEN <<part>>
    ELSE IF sorted[Len(sorted)].number <= part.number THEN Append(sorted, part)
    ELSE Append(InsertPart(SubSeq(sorted, 1, Len(sorted) - 1), part), sorted[Len(sorted)])

\* the parts as the strategies found them
Unsorted(parts) == parts

\* line 529: list.sort(key=number), a stable sort
RECURSIVE SortParts(_)
SortParts(parts) ==
    IF parts = <<>> THEN <<>>
    ELSE InsertPart(SortParts(SubSeq(parts, 1, Len(parts) - 1)), parts[Len(parts)])

\* the function on the lines of its argument
parse_lines(lines) ==
    LET markdown == IF \E j \in 1..Len(lines) : lines[j].k = "hdr"
                    THEN MarkdownParts(lines, -1, <<>>, <<>>) ELSE <<>>
        inline == IF markdown # <<>> THEN markdown ELSE InlineParts(lines)
        numbered == IF inline # <<>> THEN inline ELSE NumberedParts(lines)
        parts == IF numbered # <<>> THEN numbered ELSE <<Part(1, Strip(lines))>>
    IN  IF Strip(lines) = <<>> THEN <<>> ELSE SortParts(parts)

parse_story_parts(t) == parse_lines(TextLines(t))

\* parse_story_parts as a function of its argument: every text of up to
\* MaxLines lines over LineAlphabet is parsed
MaxLines == 4

LineAlphabet ==
    {H(1), H(2), P(1, "a"), P(2, "b"),
     N(1, "long"), N(2, "fifty"), N(3, "fortynine"), T("x"), B}

RawTexts == UNION {[1..n -> LineAlphabet] : n \in 0..MaxLines}

InitParse ==
    /\ story = NoStory
    /\ files = {}
    /\ revisions = <<>>
    /\ scenes = <<>>
    /\ now = 1
    /\ sess = NoSession
    /\ req = NoRequest
    /\ loop = NoLoop
    /\ playback = NoPlayback
    /\ \E lines \in RawTexts : parser = [pc |-> "call", lines |-> lines, parts |-> <<>>]
    /\ gens = NoGens

Parse ==
    /\ parser.pc = "call"
    /\ parser' = [parser EXCEPT !.pc = "returned", !.parts = parse_lines(parser.lines)]
    /\ UNCHANGED <<story, files, revisions, scenes, now, sess, req, loop, playback, gens>>

NextParse == Parse

SpecParse == InitParse /\ [][NextParse]_vars

----------------------------------------------------------------------------
(* Scenes (views.py 2144-2492). `scenes` is the StoryScene table of the
   story, in insertion order. *)

MaxSceneNumber == 3
SceneTexts == {"A", "G1", "G2", "Inline", "Numbered"}

Scene(number, text, image) == [scene_number |-> number, scene_text |-> text, image |-> image]

SceneNumbers(rows) == {rows[j].scene_number : j \in 1..Len(rows)}

\* a table without the constraint: every insert is taken
no_constraint(rows, number) == TRUE

\* StoryScene.Meta.unique_together (models.py 643): the insert of a row with
\* a number the story already has raises IntegrityError
unique_together(rows, number) == number \notin SceneNumbers(rows)

\* the row with the given number (there is one)
SceneIndex(rows, number) == CHOOSE j \in 1..Len(rows) : rows[j].scene_number = number

RemoveAt(rows, j) == SubSeq(rows, 1, j - 1) \o SubSeq(rows, j + 1, Len(rows))

FinishScenes(r, status) ==
    [Finish(r, status, status \in {200, 201})
        EXCEPT !.parts = r.parts, !.i = r.i, !.generated_scenes = r.generated_scenes]

InitScenes ==
    /\ \E t \in SceneTexts : story = NewStory(t, FALSE)
    /\ files = {}
    /\ revisions = <<>>
    /\ scenes = <<>>
    /\ now = 1
    /\ sess = NoSession
    /\ req = NoRequest
    /\ loop = NoLoop
    /\ playback = NoPlayback
    /\ parser = NoParser
    /\ gens = NoGens

\* generate_scenes, lines 2147-2160
GenerateScenes ==
    /\ Idle
    /\ story.exists
    /\ \E u \in Actors :
        req' = IF IsBlank(story.story_text)
               THEN Finish(NewRequest("generate_scenes", u, "done"), 400, FALSE)
               ELSE [NewRequest("generate_scenes", u, "s_init")
                        EXCEPT !.pre.scenes = Len(scenes)]
    /\ UNCHANGED <<story, files, revisions, scenes, now, loop, playback, sess, parser, gens>>

\* the client and the parse, the old scenes left in the table
ScenesInitKeeps ==
    /\ req.pc = "s_init"
    /\ \/ LET parts == parse_story_parts(story.story_text)
          IN  IF parts = <<>>
              THEN req' = Finish(req, 400, FALSE)
              ELSE req' = [req EXCEPT !.pc = "s_image", !.parts = parts, !.i = 1]
       \/ req' = Finish(req, 500, FALSE)
       \/ req' = Finish(req, 503, FALSE)
    /\ UNCHANGED <<story, files, revisions, scenes, now, loop, playback, sess, parser, gens>>

\* lines 2162-2185: the client, the parse, the delete of the old scenes
ScenesInit ==
    /\ req.pc = "s_init"
    /\ \/ LET parts == parse_story_parts(story.story_text)
          IN  IF parts = <<>>
              THEN /\ req' = Finish(req, 400, FALSE)
                   /\ UNCHANGED scenes
              ELSE /\ scenes' = <<>>
                   /\ req' = [req EXCEPT !.pc = "s_image", !.parts = parts, !.i = 1]
       \/ /\ req' = Finish(req, 500, FALSE)     \* ValueError from NovaService()
          /\ UNCHANGED scenes
       \/ /\ req' = Finish(req, 503, FALSE)     \* ImportError
          /\ UNCHANGED scenes
    /\ UNCHANGED <<story, files, revisions, now, loop, playback, sess, parser, gens>>

\* lines 2230-2248: on to the next part, or out of the loop to the response
NextPart(r) ==
    IF r.i < Len(r.parts) THEN [r EXCEPT !.pc = "s_image", !.i = @ + 1]
    ELSE FinishScenes(r, IF r.generated_scenes = <<>> THEN 500 ELSE 200)

\* lines 2192-2205: nova.generate_image raises when no provider delivers
ScenesImage ==
    /\ req.pc = "s_image"
    /\ \/ req' = [req EXCEPT !.pc = "s_create"]
       \/ req' = NextPart(req)
    /\ UNCHANGED <<story, files, revisions, scenes, now, loop, playback, sess, parser, gens>>

\* a create that numbers the row by its position in the batch
ScenesCreateByPosition ==
    /\ req.pc = "s_create"
    /\ LET part == req.parts[req.i]
       IN  IF unique_together(scenes, req.i)
           THEN /\ scenes' = Append(scenes, Scene(req.i, part.text, "none"))
                /\ req' = [req EXCEPT !.pc = "s_save"]
           ELSE /\ req' = NextPart(req)
                /\ UNCHANGED scenes
    /\ UNCHANGED <<story, files, revisions, now, loop, playback, sess, parser, gens>>

\* lines 2207-2213: StoryScene.objects.create, the row without its image
ScenesCreate ==
    /\ req.pc = "s_create"
    /\ LET part == req.parts[req.i]
       IN  IF unique_together(scenes, part.number)
           THEN /\ scenes' = Append(scenes, Scene(part.number, part.text, "none"))
                /\ req' = [req EXCEPT !.pc = "s_save"]
           ELSE /\ req' = NextPart(req)         \* IntegrityError
                /\ UNCHANGED scenes
    /\ UNCHANGED <<story, files, revisions, now, loop, playback, sess, parser, gens>>

\* lines 2221-2228: scene.image.save(..., save=True), then the append
ScenesSaveImage ==
    /\ req.pc = "s_save"
    /\ \/ /\ scenes' = [scenes EXCEPT ![Len(scenes)].image = "generated"]
          /\ req' = NextPart([req EXCEPT !.generated_scenes = Append(@, req.i)])
       \/ /\ req' = NextPart(req)               \* the storage raises
          /\ UNCHANGED scenes
    /\ UNCHANGED <<story, files, revisions, now, loop, playback, sess, parser, gens>>

\* an initialisation that starts from an empty table, as generate_scenes does
ReplaceParts(rows, parts) ==
    [j \in 1..Len(parts) |-> Scene(parts[j].number, parts[j].text, "none")]

\* initialize_scenes, lines 2342-2408: get_or_create per part, the text of an
\* existing row brought up to date
RECURSIVE InitializeParts(_, _)
InitializeParts(rows, parts) ==
    IF parts = <<>> THEN rows
    ELSE LET part == Head(parts)
         IN  InitializeParts(
                 IF part.number \in SceneNumbers(rows)
                 THEN [rows EXCEPT ![SceneIndex(rows, part.number)].scene_text = part.text]
                 ELSE Append(rows, Scene(part.number, part.text, "none")),
                 Tail(parts))

InitializeScenes ==
    /\ Idle
    /\ story.exists
    /\ \E u \in Actors :
        LET r == NewRequest("initialize_scenes", u, "done")
            parts == parse_story_parts(story.story_text)
        IN  IF IsBlank(story.story_text) \/ parts = <<>>
            THEN req' = Finish(r, 400, FALSE) /\ UNCHANGED scenes
            ELSE \/ /\ scenes' = InitializeParts(scenes, parts)
                    /\ req' = Finish(r, 200, TRUE)
                 \/ /\ req' = Finish(r, 500, FALSE)     \* NovaService() raises
                    /\ UNCHANGED scenes
    /\ UNCHANGED <<story, files, revisions, now, loop, playback, sess, parser, gens>>

\* add_scene, lines 2410-2461
AddScene ==
    /\ Idle
    /\ story.exists
    /\ \E u \in Actors, scene_number \in 1..MaxSceneNumber, scene_text \in {<<>>, <<T("mine")>>} :
        LET r == NewRequest("add_scene", u, "done")
        IN  IF scene_number \in SceneNumbers(scenes)
            THEN req' = Finish(r, 400, FALSE) /\ UNCHANGED scenes
            ELSE /\ scenes' = Append(scenes, Scene(scene_number, scene_text, "none"))
                 /\ req' = Finish(r, 201, TRUE)
    /\ UNCHANGED <<story, files, revisions, now, loop, playback, sess, parser, gens>>

\* the text upload_scene_image gives a new row, lines 2312-2323
UploadedSceneText(scene_number) ==
    LET parts == IF Truthy(story.story_text) THEN parse_story_parts(story.story_text) ELSE <<>>
        m == SelectSeq(parts, LAMBDA part : part.number = scene_number)
    IN  IF m = <<>> THEN <<>> ELSE m[1].text

\* upload_scene_image, lines 2264-2340
UploadSceneImage ==
    /\ Idle
    /\ story.exists
    /\ \E u \in Actors, scene_number \in 1..MaxSceneNumber :
        /\ scenes' =
             IF scene_number \in SceneNumbers(scenes)
             THEN [scenes EXCEPT ![SceneIndex(scenes, scene_number)].image = "uploaded"]
             ELSE \* the row is new: NovaService() may raise, the text then stays empty
                  Append(scenes, Scene(scene_number, UploadedSceneText(scene_number), "uploaded"))
        /\ req' = Finish(NewRequest("upload_scene_image", u, "done"), 200, TRUE)
    /\ UNCHANGED <<story, files, revisions, now, loop, playback, sess, parser, gens>>

\* the same, with NovaService() raising while the text of a new row is looked up
UploadSceneImageNoText ==
    /\ Idle
    /\ story.exists
    /\ \E u \in Actors, scene_number \in 1..MaxSceneNumber :
        /\ scene_number \notin SceneNumbers(scenes)
        /\ scenes' = Append(scenes, Scene(scene_number, <<>>, "uploaded"))
        /\ req' = Finish(NewRequest("upload_scene_image", u, "done"), 200, TRUE)
    /\ UNCHANGED <<story, files, revisions, now, loop, playback, sess, parser, gens>>

\* delete_scene, lines 2463-2492: scene_id is a row of this story, or unknown
DeleteScene ==
    /\ Idle
    /\ story.exists
    /\ \E u \in Actors :
        LET r == NewRequest("delete_scene", u, "done")
        IN  \/ \E j \in 1..Len(scenes) :
                 /\ scenes' = RemoveAt(scenes, j)
                 /\ req' = Finish(r, 200, TRUE)
            \/ /\ req' = Finish(r, 404, FALSE)
               /\ UNCHANGED scenes
    /\ UNCHANGED <<story, files, revisions, now, loop, playback, sess, parser, gens>>

NextScenes ==
    \/ GenerateScenes \/ ScenesInit \/ ScenesImage \/ ScenesCreate \/ ScenesSaveImage
    \/ InitializeScenes \/ AddScene \/ UploadSceneImage \/ UploadSceneImageNoText
    \/ DeleteScene

SpecScenes == InitScenes /\ [][NextScenes]_vars

----------------------------------------------------------------------------
(* VoiceStoryConsumer (consumers.py). The story is "s1"; "s2" is an id no
   story has. A message is handled to its end before the next is received. *)

StoryIds == {"s1", "s2"}
VoiceUsers == {Owner, Admin, Other, Anonymous}
VoiceTexts == {NoText, Blank, "A", "G1", "G2"}
Messages == {"invalid_json", "not_object", "unknown", "audio_input", "text_input",
             "start_narration", "stop_narration"}

\* lines 385-391
get_story(story_id) == story_id = "s1" /\ story.exists

\* lines 393-400
check_permission(u) ==
    IF ~is_authenticated(u) THEN FALSE
    ELSE IF is_superuser(u) THEN TRUE
    ELSE u = Owner

\* self.send of a frame made from a part: bytes_data the audio synthesized
\* from its text, text_data its text
SendPart(s, frame, part) ==
    [s EXCEPT !.frames = Append(@, frame), !.payloads = Append(@, part)]

\* a frame that carries no part
NoPart == [number |-> 0, text |-> <<>>]

Send(s, frame) == SendPart(s, frame, NoPart)

\* self.close(code): the socket is closed by the server
Close(s, code) == [s EXCEPT !.state = "closed", !.pc = "closed", !.code = code,
                            !.closed_by = "server", !.inbox = <<>>]

\* an except branch that gives up the socket after its error frame
SendErrorAndClose(s) == Close(Send(s, "error"), 1011)

\* the error frame of an except branch; the handler returns
SendError(s) == [Send(s, "error") EXCEPT !.pc = "idle"]

InitVoice ==
    /\ \E t \in VoiceTexts : story = NewStory(t, FALSE)
    /\ files = {}
    /\ revisions = <<>>
    /\ scenes = <<>>
    /\ now = 1
    /\ sess = NoSession
    /\ req = NoRequest
    /\ loop = NoLoop
    /\ playback = NoPlayback
    /\ parser = NoParser
    /\ gens = NoGens

\* connect, lines 20-74: the lookup, the permission check of an authenticated
\* user, accept
Connect ==
    /\ sess.state \in {"none", "closed"}
    /\ \E story_id \in StoryIds, u \in VoiceUsers :
        LET s == [NoSession EXCEPT !.story_id = story_id, !.user = u]
        IN  sess' = IF ~get_story(story_id) THEN Close(s, 4004)
                    ELSE IF is_authenticated(u) /\ ~check_permission(u) THEN Close(s, 4003)
                    ELSE [s EXCEPT !.state = "active", !.pc = "c_init"]
    /\ UNCHANGED <<story, files, revisions, scenes, now, loop, playback, req, parser, gens>>

\* connect, lines 76-103: NovaService() and the Sonic stream
ConnectInit ==
    /\ sess.pc = "c_init"
    /\ \/ sess' = [Send(sess, "connection_established") EXCEPT !.pc = "idle"]
       \/ sess' = Close(Send(sess, "error"), 1000)
    /\ UNCHANGED <<story, files, revisions, scenes, now, loop, playback, req, parser, gens>>

\* the client closes the socket (disconnect, lines 105-120)
Disconnect ==
    /\ sess.state = "active"
    /\ sess.pc = "idle"
    /\ sess' = [sess EXCEPT !.state = "closed", !.pc = "closed", !.code = 1001,
                            !.closed_by = "client", !.inbox = <<>>]
    /\ UNCHANGED <<story, files, revisions, scenes, now, loop, playback, req, parser, gens>>

\* the reply of the session to an input: response_text, or the joined
\* text_responses
Reply == [number |-> 0, text |-> <<T("response_text")>>]

DataKinds == {"absent", "malformed", "valid"}

\* an input whose failed synthesis is answered with an error frame
ErrorOnly(s) == [SendError(Send(s, "processing")) EXCEPT !.speech = "failed"]

\* lines 229-246 and 294-310: the audio, with the text of the reply
AudioOutput(s) ==
    [SendPart(Send(s, "processing"), "audio_output", Reply) EXCEPT !.speech = "ok"]

\* lines 247-253 and 311-315: no audio, the reply goes out as text
TextOnly(s) ==
    [SendPart(Send(s, "processing"), "text_output", Reply) EXCEPT !.speech = "failed"]

\* handle_audio_input, lines 158-254; audio: what the message carries as
\* 'audio' (malformed: b64decode raises on it)
handle_audio_input(s, audio) ==
    CASE audio = "absent" -> {SendError(s)}
      [] audio = "malformed" -> {SendError(s)}
      [] OTHER -> {SendError(Send(s, "processing")),        \* NovaService() raises
                   AudioOutput(s),
                   TextOnly(s)}                             \* synthesize_speech raises or returns nothing

\* handle_text_input, lines 256-316; text: what the message carries as 'text'
\* (malformed: not a string, send_text raises on it inside process_text)
handle_text_input(s, text) ==
    CASE text = "absent" -> {SendError(s)}
      [] text = "malformed" -> {TextOnly(s)}
      [] OTHER -> {AudioOutput(s), TextOnly(s)}

\* the start of handle_start_narration, lines 318-333
handle_start_narration(s) ==
    IF ~get_story(s.story_id) \/ ~Truthy(story.story_text) THEN SendError(s)
    ELSE [Send(s, "narration_started") EXCEPT !.pc = "n_init"]

\* the messages a client can send: a kind and, for an input, its data
MaxPending == 2

ClientMessages ==
    {[kind |-> m, data |-> d] : m \in {"audio_input", "text_input"}, d \in DataKinds}
        \cup {[kind |-> m, data |-> "absent"] : m \in Messages \ {"audio_input", "text_input"}}

\* a message arrives on the accepted socket, whatever the consumer is doing,
\* and waits until the consumer is given it
Deliver ==
    /\ sess.state = "active"
    /\ Len(sess.inbox) < MaxPending
    /\ \E message \in ClientMessages : sess' = [sess EXCEPT !.inbox = Append(@, message)]
    /\ UNCHANGED <<story, files, revisions, scenes, now, loop, playback, req, parser, gens>>

\* receive, lines 122-156: the consumer is given the oldest waiting message
\* once the handler of the one before has returned
Receive ==
    /\ sess.state = "active"
    /\ sess.pc = "idle"
    /\ sess.inbox # <<>>
    /\ LET m == Head(sess.inbox).kind
           data == Head(sess.inbox).data
           s == [sess EXCEPT !.inbox = Tail(@),
                             !.msg = m, !.frames = <<>>, !.payloads = <<>>,
                             !.parts = <<>>, !.i = 0,
                             !.data = IF m \in {"audio_input", "text_input"} THEN data
                                      ELSE "absent",
                             !.speech = "none"]
       IN  sess' \in
              CASE m = "audio_input" -> handle_audio_input(s, data)
                [] m = "text_input" -> handle_text_input(s, data)
                [] m = "start_narration" -> {handle_start_narration(s)}
                [] m = "stop_narration" -> {Send(s, "narration_stopped")}
                [] OTHER -> {SendError(s)}  \* unknown type, JSONDecodeError, data.get raises
    /\ UNCHANGED <<story, files, revisions, scenes, now, loop, playback, req, parser, gens>>

\* a loop that a waiting stop_narration ends
NarrationNextStoppable(s) ==
    IF s.i < Len(s.parts) /\ ~\E j \in 1..Len(s.inbox) : s.inbox[j].kind = "stop_narration"
    THEN [s EXCEPT !.i = @ + 1]
    ELSE [Send(s, "narration_complete") EXCEPT !.pc = "idle"]

\* a loop that ends without its last frame
NarrationNextSilent(s) ==
    IF s.i < Len(s.parts) THEN [s EXCEPT !.i = @ + 1]
    ELSE [s EXCEPT !.pc = "idle"]

\* lines 366-369, the loop being over
NarrationNext(s) ==
    IF s.i < Len(s.parts) THEN [s EXCEPT !.i = @ + 1]
    ELSE [Send(s, "narration_complete") EXCEPT !.pc = "idle"]

\* lines 338-339: NovaService() and the parse
NarrationInit ==
    /\ sess.pc = "n_init"
    /\ \/ LET parts == parse_story_parts(story.story_text)
          IN  sess' = IF parts = <<>>
                      THEN [Send(sess, "narration_complete") EXCEPT !.pc = "idle"]
                      ELSE [sess EXCEPT !.pc = "n_part", !.parts = parts, !.i = 1]
       \/ sess' = SendError(sess)
    /\ UNCHANGED <<story, files, revisions, scenes, now, loop, playback, req, parser, gens>>

\* lines 341-364: one part; synthesize_speech returns audio or raises
NarrationPart ==
    /\ sess.pc = "n_part"
    /\ IF Strip(sess.parts[sess.i].text) = <<>>
       THEN sess' = NarrationNext(sess)
       ELSE \/ sess' = NarrationNext(SendPart(SendPart(sess, "audio", sess.parts[sess.i]),
                                               "narration_text", sess.parts[sess.i]))
            \/ sess' = SendError(sess)
    /\ UNCHANGED <<story, files, revisions, scenes, now, loop, playback, req, parser, gens>>

NextVoice ==
    \/ Connect \/ ConnectInit \/ Disconnect
    \/ Deliver \/ Receive \/ NarrationInit \/ NarrationPart

SpecVoice == InitVoice /\ [][NextVoice]_vars

----------------------------------------------------------------------------
(* The consumers on the event loop (consumers.py 158-376). Every consumer is
   a task of one asyncio loop: `loop.running` is the consumer whose coroutine
   holds the loop, 0 when the loop is free. A coroutine holds the loop from
   the dispatch of its message to its next await of a worker thread, and
   again from its resumption. *)

MaxInbox == 1
LoopTexts == {"A", "G2"}
LoopMessages == {"audio_input", "text_input", "start_narration", "stop_narration"}
GenerationCalls == {"generate_story", "synthesize_speech", "send_text"}

\* the collaborator calls a handler makes, in order: handle_audio_input
\* (lines 206-227), handle_text_input (277-292), handle_start_narration
\* (341-351, one per part)
HandlerCalls(m) ==
    CASE m = "audio_input" -> <<"generate_story", "synthesize_speech">>
      [] m = "text_input" -> <<"send_text">>
      [] m = "start_narration" ->
            [j \in 1..Len(parse_story_parts(story.story_text)) |-> "synthesize_speech"]
      [] OTHER -> <<>>

\* a call made in the coroutine itself: the loop stays with the consumer
call_inline(l, k, call) ==
    [l EXCEPT !.task[k].call = call, !.task[k].on = "loop", !.task[k].pc = "wait",
              !.task[k].calls = Tail(@)]

\* await loop.run_in_executor(None, f) (lines 216, 227, 292) and
\* await asyncio.to_thread(f) (346-350): f runs on a worker thread and the
\* coroutine is suspended, the loop free for the other tasks
run_in_executor(l, k, call) ==
    [l EXCEPT !.running = 0, !.task[k].call = call, !.task[k].on = "thread",
              !.task[k].pc = "wait", !.task[k].calls = Tail(@)]

InitLoop ==
    /\ \E t \in LoopTexts : story = NewStory(t, FALSE)
    /\ files = {}
    /\ revisions = <<>>
    /\ scenes = <<>>
    /\ now = 1
    /\ sess = NoSession
    /\ req = NoRequest
    /\ loop = NoLoop
    /\ playback = NoPlayback
    /\ parser = NoParser
    /\ gens = NoGens

\* a frame arrives on the socket of consumer k and waits for its dispatch
Arrive ==
    /\ \E k \in Consumers, m \in LoopMessages :
        /\ Len(loop.task[k].inbox) < MaxInbox
        /\ loop' = [loop EXCEPT !.task[k].inbox = Append(@, m)]
    /\ UNCHANGED <<story, files, revisions, scenes, now, sess, req, playback, parser, gens>>

\* the loop, free, gives a consumer that is between messages its next one:
\* receive (lines 122-139) starts
Dispatch ==
    /\ loop.running = 0
    /\ \E k \in Consumers :
        /\ loop.task[k].pc = "idle"
        /\ loop.task[k].inbox # <<>>
        /\ loop' = [loop EXCEPT !.running = k,
                                !.task[k].pc = "run",
                                !.task[k].msg = Head(loop.task[k].inbox),
                                !.task[k].inbox = Tail(@),
                                !.task[k].calls = HandlerCalls(Head(loop.task[k].inbox)),
                                !.task[k].overlap = FALSE]
    /\ UNCHANGED <<story, files, revisions, scenes, now, sess, req, playback, parser, gens>>

\* the running coroutine reaches its next collaborator call
Offload ==
    /\ \E k \in Consumers :
        /\ loop.running = k
        /\ loop.task[k].pc = "run"
        /\ loop.task[k].calls # <<>>
        /\ loop' = run_in_executor(loop, k, Head(loop.task[k].calls))
    /\ UNCHANGED <<story, files, revisions, scenes, now, sess, req, playback, parser, gens>>

\* the call returns or raises; the exception of a synthesis ends a narration
\* (lines 371-376), the other handlers go on (211-213, 223-225, 287-289)
Return ==
    /\ \E k \in Consumers :
        /\ loop.task[k].pc = "wait"
        /\ \E raised \in BOOLEAN :
            /\ raised => loop.task[k].msg = "start_narration"
            /\ loop' = [loop EXCEPT !.task[k].call = "none",
                                    !.task[k].on = "none",
                                    !.task[k].pc = IF loop.task[k].on = "thread" THEN "ready"
                                                   ELSE "run",
                                    !.task[k].calls = IF raised THEN <<>> ELSE @]
    /\ UNCHANGED <<story, files, revisions, scenes, now, sess, req, playback, parser, gens>>

\* the loop, free, resumes a coroutine whose awaited call is over
Resume ==
    /\ loop.running = 0
    /\ \E k \in Consumers :
        /\ loop.task[k].pc = "ready"
        /\ loop' = [loop EXCEPT !.running = k, !.task[k].pc = "run"]
    /\ UNCHANGED <<story, files, revisions, scenes, now, sess, req, playback, parser, gens>>

\* the running coroutine sends its last frame and its handler returns; a
\* consumer that is waiting on a call has now seen another one answered
Answer ==
    /\ \E k \in Consumers :
        /\ loop.running = k
        /\ loop.task[k].pc = "run"
        /\ loop.task[k].calls = <<>>
        /\ loop' = [loop EXCEPT
                      !.running = 0,
                      !.task = [j \in Consumers |->
                                  IF j = k THEN [loop.task[k] EXCEPT !.pc = "idle"]
                                  ELSE IF loop.task[j].call # "none"
                                       THEN [loop.task[j] EXCEPT !.overlap = TRUE]
                                       ELSE loop.task[j]]]
    /\ UNCHANGED <<story, files, revisions, scenes, now, sess, req, playback, parser, gens>>

NextLoop == Arrive \/ Dispatch \/ Offload \/ Return \/ Resume \/ Answer

SpecLoop == InitLoop /\ [][NextLoop]_vars

----------------------------------------------------------------------------
(* StorySessionViewSet (views.py 2543-2605) over the StorySession model
   (models.py 870-930). One listening session is modelled; `playback` holds
   its row and the last response. Every handler makes one save, so every
   handler is one step. Times are clock readings; a client may send any. *)

ClientTimes == 0..MaxClock

ClientDurations == {0, 9}

\* the writable fields of StorySessionSerializer a request body may carry;
\* a field the body leaves out is absent, which is not the same as null
SessionData ==
    [has_ended_at : BOOLEAN, ended_at : ClientTimes \cup {Null},
     has_duration_seconds : BOOLEAN, duration_seconds : ClientDurations \cup {Null},
     has_completed : BOOLEAN, completed : BOOLEAN]

\* StorySession.calculate_duration
calculate_duration(s) ==
    IF s.ended_at # Null /\ s.started_at # Null
    THEN s.ended_at - s.started_at
    ELSE Null

\* StorySession.save: the duration is recomputed when both times are set on
\* the instance at the moment save() is entered
save(s) ==
    IF s.ended_at # Null /\ s.started_at # Null
    THEN [s EXCEPT !.duration_seconds = calculate_duration(s)]
    ELSE s

\* auto_now_add: the field is filled while the row is inserted, after save()
\* has looked at it
auto_now_add(s) == [s EXCEPT !.started_at = now]

\* the serializer puts the fields of the body on the instance
Assign(s, data) ==
    [s EXCEPT !.ended_at = IF data.has_ended_at THEN data.ended_at ELSE @,
              !.duration_seconds = IF data.has_duration_seconds THEN data.duration_seconds ELSE @,
              !.completed = IF data.has_completed THEN data.completed ELSE @]

\* StorySessionViewSet.get_queryset
session_queryset(u) ==
    /\ playback.session.exists
    /\ (is_superuser(u) \/ playback.session.user = u)

Respond(s, op, status) == [session |-> s, op |-> op, status |-> status]

\* POST /story-sessions/: perform_create, then Model.save on a new instance
CreateSession ==
    /\ ~playback.session.exists
    /\ \E u \in HttpUsers, data \in SessionData :
          LET instance == Assign([NoStorySession EXCEPT !.exists = TRUE, !.user = u], data)
          IN  playback' = Respond(auto_now_add(save(instance)), "create", 201)
    /\ UNCHANGED <<story, files, revisions, scenes, now, sess, req, loop, parser, gens>>

\* PUT or PATCH /story-sessions/<id>/
UpdateSession ==
    /\ playback.session.exists
    /\ \E u \in HttpUsers, data \in SessionData :
          IF session_queryset(u)
          THEN playback' = Respond(save(Assign(playback.session, data)), "update", 200)
          ELSE playback' = Respond(playback.session, "update", 404)
    /\ UNCHANGED <<story, files, revisions, scenes, now, sess, req, loop, parser, gens>>

\* DELETE /story-sessions/<id>/
DestroySession ==
    /\ playback.session.exists
    /\ \E u \in HttpUsers :
          IF session_queryset(u)
          THEN playback' = Respond(NoStorySession, "destroy", 204)
          ELSE playback' = Respond(playback.session, "destroy", 404)
    /\ UNCHANGED <<story, files, revisions, scenes, now, sess, req, loop, parser, gens>>

\* POST /story-sessions/<id>/end_session/
end_session ==
    /\ playback.session.exists
    /\ \E u \in HttpUsers, completed \in BOOLEAN :
          LET session == playback.session
          IN  IF ~session_queryset(u)
              THEN playback' = Respond(session, "end_session", 404)
              ELSE IF ~is_superuser(u) /\ session.user # u
              THEN playback' = Respond(session, "end_session", 403)
              ELSE IF session.ended_at # Null
              THEN playback' = Respond(session, "end_session", 400)
              ELSE playback' = Respond(save([session EXCEPT !.ended_at = now,
                                                            !.completed = completed]),
                                       "end_session", 200)
    /\ UNCHANGED <<story, files, revisions, scenes, now, sess, req, loop, parser, gens>>

InitSessions ==
    /\ story = NewStory("A", FALSE)
    /\ files = {}
    /\ revisions = <<>>
    /\ scenes = <<>>
    /\ now = 1
    /\ sess = NoSession
    /\ req = NoRequest
    /\ loop = NoLoop
    /\ playback = NoPlayback
    /\ parser = NoParser
    /\ gens = NoGens

NextSessions == CreateSession \/ UpdateSession \/ DestroySession \/ end_session \/ Tick

SpecSessions == InitSessions /\ [][NextSessions]_vars

----------------------------------------------------------------------------
(* Two requests that generate audio for the story at the same time
   (views.py 1723-1797), each in its own worker with its own locals
   `gens[g]`; the store and the file system are shared. A request enters
   with its audio synthesized and transcoded. *)

\* the story has text, and either no audio yet or the audio of second 1
InitRace ==
    /\ \E prior \in {0, 1} :
          /\ story = [NewStory("A", FALSE) EXCEPT !.audio_file = prior]
          /\ files = IF prior = 0 THEN {} ELSE {prior}
          /\ now = 1 + prior
    /\ revisions = <<>>
    /\ scenes = <<>>
    /\ sess = NoSession
    /\ req = NoRequest
    /\ loop = NoLoop
    /\ playback = NoPlayback
    /\ parser = NoParser
    /\ gens = NoGens

\* the request reaches line 1723
RaceStart(g) ==
    /\ gens[g].pc = "idle"
    /\ gens' = [gens EXCEPT ![g].pc = "write"]
    /\ UNCHANGED <<story, files, revisions, scenes, now, sess, req, loop, playback, parser>>

\* lines 1723-1745: refresh_from_db, old_audio_path, save_image_file
RaceWrite(g) ==
    /\ gens[g].pc = "write"
    /\ files' = files \cup {get_image_upload_path(now)}
    /\ gens' = [gens EXCEPT ![g] = [pc |-> "commit", path |-> get_image_upload_path(now),
                                    old |-> story.audio_file]]
    /\ UNCHANGED <<story, revisions, scenes, now, sess, req, loop, playback, parser>>

\* lines 1750-1752
RaceCommit(g) ==
    /\ gens[g].pc = "commit"
    /\ story' = [story EXCEPT !.audio_file = gens[g].path]
    /\ gens' = [gens EXCEPT ![g].pc = "delete_old"]
    /\ UNCHANGED <<files, revisions, scenes, now, sess, req, loop, playback, parser>>

\* lines 1761-1772: the specific old file; an exception skips the sweep too
RaceDeleteOld(g) ==
    /\ gens[g].pc = "delete_old"
    /\ IF /\ gens[g].old # 0
          /\ gens[g].old # gens[g].path
          /\ is_audio_file(gens[g].old)
          /\ gens[g].old \in files
       THEN \/ /\ files' = files \ {gens[g].old}
               /\ gens' = [gens EXCEPT ![g].pc = "sweep"]
            \/ /\ gens' = [gens EXCEPT ![g].pc = "done"]
               /\ UNCHANGED files
       ELSE /\ gens' = [gens EXCEPT ![g].pc = "sweep"]
            /\ UNCHANGED files
    /\ UNCHANGED <<story, revisions, scenes, now, sess, req, loop, playback, parser>>

\* lines 1774-1797: every other audio_*.mp3 of the story directory goes
RaceSweep(g) ==
    /\ gens[g].pc = "sweep"
    /\ files' = {f \in files : Dir(f) # Dir(gens[g].path) \/ f = gens[g].path}
    /\ gens' = [gens EXCEPT ![g].pc = "done"]
    /\ UNCHANGED <<story, revisions, scenes, now, sess, req, loop, playback, parser>>

NextRace ==
    \/ \E g \in Generators : RaceStart(g)
    \/ \E g \in Generators : RaceWrite(g)
    \/ \E g \in Generators : RaceCommit(g)
    \/ \E g \in Generators : RaceDeleteOld(g)
    \/ \E g \in Generators : RaceSweep(g)
    \/ Tick

SpecRace == InitRace /\ [][NextRace]_vars

----------------------------------------------------------------------------
(* Story generation: properties *)

GenerationOps == {"create", "update_image", "regenerate"}
Done(ops) == req.pc = "done" /\ req.op \in ops /\ req.status \in {200, 201}

\* C1: on create, image-triggered update and regenerate, when text generation
\* succeeded and the audio stage failed, the finished operation has committed
\* the generated, non-empty text and the audio reference is the one the story
\* had before.
C1_TextSurvivesAudioFailure ==
    (Done(GenerationOps) /\ req.gen = "ok" /\ req.audio = "failed")
        => /\ story.story_text \in GeneratedTexts
           /\ ~IsBlank(story.story_text)
           /\ story.audio_file = req.pre.audio_file

C1_Witness ==
    /\ Done({"regenerate"}) /\ req.gen = "ok" /\ req.audio = "failed"
    /\ req.pre.audio_file # 0
    /\ story.audio_file = req.pre.audio_file
    /\ story.story_text \in GeneratedTexts
    /\ story.story_text # req.pre.story_text

\* C2: whenever an audio file is deleted while a request replaces the audio,
\* the new file has been written and the story's committed audio reference
\* already names the new file, not the deleted one.
C2_DeleteAfterCommit ==
    [][\A f \in files \ files' :
          /\ story.audio_file # f
          /\ req.audio_path \in files
          /\ story.audio_file = req.audio_path]_vars

\* C3: whenever a committed, non-empty story_text is replaced by a different
\* text, the newest StoryRevision already holds the replaced text and the
\* acting user at the moment of the commit.
C3_RevisionBeforeCommit ==
    [][(story.exists /\ ~IsBlank(story.story_text) /\ story'.story_text # story.story_text)
          => /\ Len(revisions) > 0
             /\ revisions[Len(revisions)] = Revision(story.story_text, req'.user)]_vars

\* C8: _generate_story_content returns True only with non-empty text on the
\* story, and returns False only when no text was produced or at hand, in
\* which case story_text holds the error message.
C8_ReturnValue ==
    Done({"create", "update_image", "generate_audio"})
        => IF req.ret
           THEN ~IsBlank(story.story_text) /\ story.story_text \notin {ErrImport, ErrGenerate}
           ELSE /\ req.op # "generate_audio"
                /\ req.gen # "ok"
                /\ story.story_text \in {ErrImport, ErrGenerate}

\* C9: generate_audio leaves story_text as it found it, at every step and
\* whatever fails.
C9_AudioOnlyKeepsText ==
    req.op = "generate_audio" => story.story_text = req.pre.story_text

\* C13: the step that writes a new audio asset writes it to a path that no
\* earlier asset of the story has: the path is not in the store and is not
\* the one the story references.
C13_DistinctAssetPaths ==
    [][(req.pc \in {"g_write", "r_write"} /\ req'.pc \in {"g_commit", "r_delete_old"})
          => /\ req'.audio_path \notin files
             /\ req'.audio_path # story.audio_file]_vars

AudioStage == {"g_synth", "g_mp3", "g_write", "g_commit", "g_delete_old", "g_sweep",
               "r_synth", "r_mp3", "r_write", "r_delete_old", "r_save"}

\* C14: from the first step of the audio stage on, the text the request
\* generated and the system prompt are in the store, on the create/update
\* path and on the regenerate path.
C14_TextCommittedBeforeSynthesis ==
    (req.gen = "ok" /\ req.pc \in AudioStage)
        => /\ story.story_text = req.story_text
           /\ story.system_prompt_used = "SP"

C16_RevisionOnlyOnOverwrite ==
    (req.pc = "done" /\ req.revised)
        => /\ req.op # "create"
           /\ Truthy(req.pre.story_text)
           /\ \/ req.op \in {"update_text", "update_image"}
              \/ req.op = "regenerate" /\ req.gen = "ok" /\ req.status = 200

\* the new text of the request is in the store
NewTextCommitted ==
    /\ req.op \in GenerationOps
    /\ req.gen = "ok"
    /\ req.op = "regenerate" => req.pc = "done"

\* C17: with the new text of a regeneration committed and its audio not,
\* a story that had audio references no audio asset.
C17_TextReadyUntilAudio ==
    (NewTextCommitted /\ req.pre.audio_file # 0 /\ req.audio # "ok")
        => story.audio_file = 0

\* C17 as the handlers have it: with the new text committed and the new audio
\* not, a story that had audio still references the asset it had; the
\* reference is never cleared.
C17_OldAudioStays ==
    (req.op \in GenerationOps /\ req.pre.audio_file # 0)
        => /\ story.audio_file # 0
           /\ req.audio # "ok" => story.audio_file = req.pre.audio_file

C17_Witness ==
    /\ req.op = "update_image" /\ req.pc = "g_synth" /\ req.gen = "ok"
    /\ req.pre.audio_file # 0
    /\ story.audio_file = req.pre.audio_file
    /\ story.story_text # req.pre.story_text
    /\ story.story_text \in GeneratedTexts

\* C30: a request on the story by a caller who is neither its owner nor a
\* superuser is answered with a 4xx status and leaves the story, its scenes,
\* its revisions and its files as they were
C30_StrangersChangeNothing ==
    [][(req' # req /\ req'.op # "none"
           /\ ~(is_superuser(req'.user) \/ req'.user = Owner))
          => /\ req'.pc = "done"
             /\ req'.status \in 400..499
             /\ story' = story /\ scenes' = scenes
             /\ revisions' = revisions /\ files' = files]_vars

\* somebody else has asked to regenerate a story that has text, audio and a
\* revision
C30_Witness ==
    /\ req.pc = "done" /\ req.op = "regenerate" /\ req.user = Other /\ req.status = 404
    /\ Truthy(story.story_text) /\ story.audio_file # 0 /\ story.audio_file \in files
    /\ revisions # <<>>

----------------------------------------------------------------------------
(* Scenes: properties *)

\* C6: a finished generate_scenes over n >= 1 parsed parts has gone through
\* every part, answers 200 exactly when at least one part succeeded, and the
\* story's scenes are exactly the succeeded parts, each with its parsed number
\* and its image.
C6_PartialSuccess ==
    (req.pc = "done" /\ req.op = "generate_scenes" /\ req.parts # <<>>)
        => /\ req.i = Len(req.parts)
           /\ (req.status = 200) <=> (req.generated_scenes # <<>>)
           /\ Len(scenes) = Len(req.generated_scenes)
           /\ \A j \in 1..Len(scenes) :
                 scenes[j] = Scene(req.parts[req.generated_scenes[j]].number,
                                   req.parts[req.generated_scenes[j]].text, "generated")

\* C7: no two scenes of the story have the same scene_number, in every state
\* the scene operations reach, the parser returning a number twice included.
C7_UniqueSceneNumbers ==
    \A j, k \in 1..Len(scenes) : j # k => scenes[j].scene_number # scenes[k].scene_number

C7_Witness ==
    /\ req.pc = "done" /\ req.op = "generate_scenes" /\ req.status = 200
    /\ \E j, k \in 1..Len(req.parts) : j # k /\ req.parts[j].number = req.parts[k].number
    /\ Len(scenes) = 1
    /\ Len(req.generated_scenes) = 1

\* the scenario of the specification: three parts, the second fails in
\* generate_image, scenes 1 and 3 remain
C6_Scenario ==
    /\ req.pc = "done" /\ req.op = "generate_scenes" /\ req.status = 200
    /\ Len(req.parts) = 3
    /\ req.generated_scenes = <<1, 3>>
    /\ SceneNumbers(scenes) = {1, 3}

\* the rows that do not carry the number
OtherScenes(rows, number) == SelectSeq(rows, LAMBDA row : row.scene_number # number)

\* C20: upload_scene_image, add_scene and delete_scene change only the scene
\* they target; initialize_scenes deletes no scene and changes no image, and
\* changes the text only of scenes whose number is a part of the story;
\* add_scene is accepted only with a number the story does not have yet, and
\* a rejected request changes nothing
C20_OnlyTheTargetedScene ==
    [][(Idle /\ req'.pc = "done" /\ req' # req)
          => /\ req'.op = "upload_scene_image"
                  => \E n \in 1..MaxSceneNumber :
                        /\ OtherScenes(scenes', n) = OtherScenes(scenes, n)
                        /\ Len(scenes') = Len(scenes) + (IF n \in SceneNumbers(scenes) THEN 0 ELSE 1)
             /\ req'.op = "add_scene"
                  => IF req'.status = 201
                     THEN /\ Len(scenes') = Len(scenes) + 1
                          /\ SubSeq(scenes', 1, Len(scenes)) = scenes
                          /\ scenes'[Len(scenes')].scene_number \notin SceneNumbers(scenes)
                     ELSE scenes' = scenes
             /\ req'.op = "delete_scene"
                  => IF req'.status = 200
                     THEN \E j \in 1..Len(scenes) : scenes' = RemoveAt(scenes, j)
                     ELSE scenes' = scenes
             /\ req'.op = "initialize_scenes"
                  => /\ Len(scenes') >= Len(scenes)
                     /\ \A j \in 1..Len(scenes) :
                           /\ scenes'[j].scene_number = scenes[j].scene_number
                           /\ scenes'[j].image = scenes[j].image
                           /\ scenes[j].scene_number
                                  \notin {part.number : part \in
                                             {parse_story_parts(story.story_text)[k] :
                                                k \in 1..Len(parse_story_parts(story.story_text))}}
                                => scenes'[j] = scenes[j]
                     /\ req'.status # 200 => scenes' = scenes]_vars

\* initialize_scenes has run on a story that had a scene with an image, and
\* has added a scene next to it
C20_Witness ==
    /\ req.pc = "done" /\ req.op = "initialize_scenes" /\ req.status = 200
    /\ Len(scenes) >= 2
    /\ scenes[1].image = "uploaded"
    /\ \E j \in 2..Len(scenes) : scenes[j].image = "none" /\ scenes[j].scene_text # <<>>

\* generate_scenes has left its loop: the response is 200 or the 500 of line 2234
LoopDone == req.op = "generate_scenes" /\ req.pc = "done" /\ req.parts # <<>>

PartNumbers(parts) == {parts[j].number : j \in 1..Len(parts)}

\* the numbers of the parts the run has appended to generated_scenes
GeneratedNumbers(r) == {r.parts[r.generated_scenes[j]].number : j \in 1..Len(r.generated_scenes)}

InLoop == req.op = "generate_scenes" /\ req.pc \in {"s_image", "s_create", "s_save"}

\* C29: generate_scenes has deleted the scenes the story had when it attempts
\* its first illustration and does not bring them back: from there on the
\* table holds only rows the run created, at most one per part it has
\* reached, and a run that answers 500 because every illustration failed
\* leaves no scene with an image, whatever the story had before
C29_PriorScenesGone ==
    (InLoop \/ LoopDone)
        => /\ Len(scenes) <= (IF req.pc \in {"s_image", "s_create"} THEN req.i - 1 ELSE req.i)
           /\ \A j \in 1..Len(scenes) :
                 /\ scenes[j].image \in {"none", "generated"}
                 /\ \E i \in 1..req.i : /\ scenes[j].scene_number = req.parts[i].number
                                         /\ scenes[j].scene_text = req.parts[i].text
           /\ (LoopDone /\ req.status = 500)
                 => \A j \in 1..Len(scenes) : scenes[j].image = "none"

\* a run over a story that had two scenes has answered 500 and left none
C29_Witness ==
    /\ LoopDone /\ req.status = 500
    /\ req.pre.scenes >= 2
    /\ scenes = <<>>

----------------------------------------------------------------------------
(* Voice session: properties *)

MayAccess(u) == u = Owner \/ is_superuser(u)

\* C4: a voice session is active only for an existing story and a user who
\* owns it or is a superuser; a session for an unknown story is closed with
\* 4004 and one of a user who fails the ownership check with 4003, both
\* without a frame ever sent on them.
C4_ActiveOnlyForOwner ==
    /\ sess.state = "active" => get_story(sess.story_id) /\ MayAccess(sess.user)
    /\ (sess.state # "none" /\ ~get_story(sess.story_id))
          => sess.state = "closed" /\ sess.code = 4004 /\ sess.frames = <<>>
    /\ (sess.state # "none" /\ get_story(sess.story_id) /\ ~MayAccess(sess.user))
          => sess.state = "closed" /\ sess.code = 4003 /\ sess.frames = <<>>

C11_NarrationPairs ==
    sess.msg = "start_narration"
        => LET f == sess.frames
               q == sess.payloads
               audio == {j \in 1..Len(f) : f[j] = "audio"}
           IN  /\ Len(q) = Len(f)
               /\ \A j \in audio : /\ j < Len(f)
                                   /\ f[j + 1] = "narration_text"
                                   /\ q[j + 1] = q[j]
                                   /\ Strip(q[j].text) # <<>>
               /\ \A j \in 1..Len(f) : f[j] = "narration_text" => (j - 1) \in audio
               /\ \A j, k \in audio : j < k => q[j].number <= q[k].number

\* a narration over the text whose headers read 1, 3, 2: the parts come 1, 2, 3
C11_Witness ==
    /\ sess.msg = "start_narration" /\ sess.pc = "idle"
    /\ story.story_text = "G1"
    /\ Len(sess.frames) = 8
    /\ sess.payloads[2].number = 1 /\ sess.payloads[4].number = 2
    /\ sess.payloads[6].number = 3
    /\ sess.payloads[6].text = <<T("c")>>

\* an audio or text input has been handled to its end
InputHandled == sess.state = "active" /\ sess.pc = "idle"
                /\ sess.msg \in {"audio_input", "text_input"}

ResponseFrames == {"audio_output", "text_output", "error"}

\* C24 (as stated): a failed synthesis is answered with a text-only frame
\* that carries the reply, and every input that carries data gets a
\* processing frame and then exactly one response frame
C24_ProcessingThenOneResponse ==
    InputHandled
        => /\ sess.speech = "failed"
                 => /\ sess.frames = <<"processing", "text_output">>
                    /\ sess.payloads[2] = Reply
           /\ sess.data # "absent"
                 => /\ Len(sess.frames) = 2
                    /\ sess.frames[1] = "processing"
                    /\ sess.frames[2] \in ResponseFrames

\* C24 (amended): the same for every input whose data can be decoded; an
\* audio input whose data is not base64 gets one error frame and no
\* processing frame
C24_TextOnlyFallback ==
    InputHandled
        => /\ sess.speech = "failed"
                 => /\ sess.frames = <<"processing", "text_output">>
                    /\ sess.payloads[2] = Reply
           /\ (sess.data = "valid" \/ (sess.data = "malformed" /\ sess.msg = "text_input"))
                 => /\ Len(sess.frames) = 2
                    /\ sess.frames[1] = "processing"
                    /\ sess.frames[2] \in ResponseFrames
           /\ (sess.data = "malformed" /\ sess.msg = "audio_input")
                 => sess.frames = <<"error">>
           /\ sess.data = "absent" => sess.frames = <<"error">>

\* an audio input whose reply could not be synthesized was answered in text
C24_Witness ==
    /\ InputHandled /\ sess.msg = "audio_input" /\ sess.data = "valid"
    /\ sess.speech = "failed"
    /\ sess.frames = <<"processing", "text_output">>

Narrating == sess.pc \in {"n_init", "n_part"}

\* C28: the messages of a session are handled one at a time in the order of
\* their arrival. A message is taken in hand only when the handler of the
\* one before has returned, and it is the oldest waiting one; a frame is sent
\* only for the message in hand; the answer to a stop_narration that arrived
\* during a narration follows the last frame of the narration, and the
\* narration goes through all its parts whatever is waiting.
C28_OneAtATime ==
    [][(sess.state = "active" /\ sess'.state = "active" /\ sess.pc # "c_init")
          => /\ sess'.inbox # sess.inbox
                  => \/ Len(sess'.inbox) = Len(sess.inbox) + 1
                           /\ SubSeq(sess'.inbox, 1, Len(sess.inbox)) = sess.inbox
                           /\ sess'.frames = sess.frames /\ sess'.msg = sess.msg
                     \/ sess.pc = "idle" /\ sess.inbox # <<>>
                           /\ sess'.inbox = Tail(sess.inbox)
                           /\ sess'.msg = Head(sess.inbox).kind
             /\ (sess'.frames # sess.frames /\ sess'.inbox = sess.inbox)
                  => /\ Narrating
                     /\ sess'.msg = sess.msg
                     /\ Len(sess'.frames) > Len(sess.frames)
                     /\ SubSeq(sess'.frames, 1, Len(sess.frames)) = sess.frames
                     /\ \A j \in 1..Len(sess'.frames) : sess'.frames[j] # "narration_stopped"
             /\ (Narrating /\ ~Narrating'
                    /\ sess'.frames[Len(sess'.frames)] = "narration_complete")
                  => sess.parts = <<>> \/ sess.i = Len(sess.parts)]_vars

\* a narration at its last part, the first part sent, while a stop_narration
\* is waiting
C28_Witness ==
    /\ sess.state = "active" /\ sess.pc = "n_part"
    /\ Len(sess.parts) >= 2 /\ sess.i = Len(sess.parts)
    /\ Len(sess.frames) = 1 + 2 * (sess.i - 1)
    /\ sess.inbox # <<>> /\ Head(sess.inbox).kind = "stop_narration"

----------------------------------------------------------------------------
(* Event loop: properties *)

\* C12: a consumer's generate_story, synthesize_speech or send_text call
\* runs on a worker thread and not in its coroutine: while the call is under
\* way the consumer does not hold the event loop, and when no other coroutine
\* holds it either, a message waiting for another consumer can be dispatched.
C12_CallsOffTheLoop ==
    \A k \in Consumers :
        loop.task[k].call \in GenerationCalls
            => /\ loop.task[k].on = "thread"
               /\ loop.running # k
               /\ \A j \in Consumers \ {k} :
                     (loop.running = 0 /\ loop.task[j].pc = "idle" /\ loop.task[j].inbox # <<>>)
                         => ENABLED Dispatch

\* consumer 1 is waiting on a synthesis and consumer 2 has been answered
\* meanwhile
C12_Witness ==
    /\ loop.task[1].call = "synthesize_speech"
    /\ loop.task[1].msg = "start_narration"
    /\ loop.task[1].overlap
    /\ loop.task[2].pc = "idle"

----------------------------------------------------------------------------
(* Listening sessions: properties *)

\* C18: a stored session that has both a start time and an end time has
\* duration_seconds equal to the seconds between them, whatever duration the
\* client sent when it created or updated the session
C18_DurationIsDerived ==
    (playback.session.exists /\ playback.session.started_at # Null
                             /\ playback.session.ended_at # Null)
        => playback.session.duration_seconds
             = playback.session.ended_at - playback.session.started_at

\* C19: once the end time of a session is set no later operation changes it,
\* and end_session on an ended session answers 400 and leaves the row as it was
C19_ClosedOnce ==
    [][(playback.session.exists /\ playback.session.ended_at # Null /\ playback' # playback)
          => /\ playback'.session.exists
                  => playback'.session.ended_at = playback.session.ended_at
             /\ (playback'.op = "end_session" /\ playback'.status \notin {403, 404})
                  => /\ playback'.status = 400
                     /\ playback'.session = playback.session]_vars

----------------------------------------------------------------------------
(* Parser: properties *)

Returned == parser.pc = "returned"

\* the text between its first and its last line that is not blank
Trimmed(lines) ==
    LET nb == {j \in 1..Len(lines) : lines[j].k # "blank"}
    IN  IF nb = {} THEN <<>>
        ELSE SubSeq(lines, CHOOSE j \in nb : \A k \in nb : j <= k,
                           CHOOSE j \in nb : \A k \in nb : j >= k)

Kinds(lines) == {lines[j].k : j \in 1..Len(lines)}

\* C22: a text without any marker is parsed into one segment, numbered 1,
\* whose text is the trimmed input; an empty or blank text into no segment
C22_Fallback ==
    (Returned /\ Kinds(parser.lines) \subseteq {"txt", "blank"})
        => parser.parts = IF Trimmed(parser.lines) = <<>> THEN <<>>
                          ELSE <<Part(1, Trimmed(parser.lines))>>

C22_Witness ==
    /\ Returned
    /\ parser.lines = <<B, T("x"), B, T("x")>>
    /\ parser.parts = <<Part(1, <<T("x"), B, T("x")>>)>>

C22_WitnessBlank == Returned /\ parser.lines = <<B, B>> /\ parser.parts = <<>>

\* the header strategy has found a segment
HeaderText(lines) == MarkdownParts(lines, -1, <<>>, <<>>) # <<>>

\* C23 (as stated): the segments of a text with header lines come back in
\* strictly increasing order of their numbers
C23_StrictlyIncreasing ==
    (Returned /\ HeaderText(parser.lines))
        => \A j, k \in 1..Len(parser.parts) :
              j < k => parser.parts[j].number < parser.parts[k].number

\* the numbers of the headers that have a body, one per such header
HeaderNumbers(lines) ==
    LET parts == MarkdownParts(lines, -1, <<>>, <<>>)
    IN  [j \in 1..Len(parts) |-> parts[j].number]

\* C23 (amended): the segments come back in nondecreasing order of their
\* numbers whatever the order of the headers, and in strictly increasing
\* order when no number heads two segments
C23_Nondecreasing ==
    (Returned /\ HeaderText(parser.lines))
        => /\ \A j, k \in 1..Len(parser.parts) :
                 j < k => parser.parts[j].number <= parser.parts[k].number
           /\ (\A j, k \in 1..Len(HeaderNumbers(parser.lines)) :
                  j # k => HeaderNumbers(parser.lines)[j] # HeaderNumbers(parser.lines)[k])
                 => \A j, k \in 1..Len(parser.parts) :
                       j < k => parser.parts[j].number < parser.parts[k].number

\* headers 2 and 1, in this order, come back as segments 1 and 2
C23_Witness ==
    /\ Returned
    /\ parser.lines = <<H(2), T("x"), H(1), T("x")>>
    /\ Len(parser.parts) = 2
    /\ parser.parts[1].number = 1 /\ parser.parts[2].number = 2

\* the segments the inline markers of a text stand for: each from its marker
\* to the line before the next marker, or to the end
InlineBodies(lines) ==
    LET idx == SelectSeq([j \in 1..Len(lines) |-> j], LAMBDA j : lines[j].k = "inl")
        last(i) == IF i < Len(idx) THEN idx[i + 1] - 1 ELSE Len(lines)
    IN  [i \in 1..Len(idx) |->
            Part(lines[idx[i]].n,
                 Trimmed(<<T(lines[idx[i]].s)>> \o SubSeq(lines, idx[i] + 1, last(i))))]

\* C25: when the header strategy finds nothing, every inline marker yields
\* one segment with the marker's number and the text up to the next marker
\* or the end of the input
C25_InlineBodies ==
    (Returned /\ ~HeaderText(parser.lines) /\ "inl" \in Kinds(parser.lines))
        => parser.parts = SortParts(InlineBodies(parser.lines))

\* the sections the numbered-list strategy keeps under the rule of 50
\* characters: those whose text has 50 characters or more
LongSections(lines) ==
    LET m == SelectSeq(lines, LAMBDA l : l.k = "num" /\ TextLen(l.s) >= 50)
    IN  [j \in 1..Len(m) |-> Part(m[j].n, <<T(m[j].s)>>)]

\* C26: in the numbered-list strategy a section is discarded exactly when
\* its text is shorter than 50 characters
C26_FiftyIsKept ==
    (Returned /\ ~HeaderText(parser.lines) /\ "inl" \notin Kinds(parser.lines)
              /\ LongSections(parser.lines) # <<>>)
        => parser.parts = SortParts(LongSections(parser.lines))

----------------------------------------------------------------------------
(* Concurrent audio generations: properties *)

BothFinished == \A g \in Generators : gens[g].pc = "done"

\* C27: once both concurrent audio generations have finished, the file the
\* story's committed audio reference names exists
C27_CommittedAudioExists ==
    BothFinished => story.audio_file \in files

====
